---- MODULE Spec2Model ----
(***************************************************************************)
(* A model of the LoRa symbol decoder of gr-lora (lib/decode_impl.cc):     *)
(* gray mapping, whitening, diagonal de-interleaving, Hamming decoding and *)
(* the decode message handler that chains them.                            *)
(*                                                                         *)
(* Symbols are unsigned short (16 bit), codewords and bytes unsigned char  *)
(* (8 bit).  C evaluates the bit expressions in int and truncates on the   *)
(* store, which U16 and U8 model.                                          *)
(***************************************************************************)
EXTENDS Integers, Sequences, FiniteSets, TLC

VARIABLES
  pc,                    \* position of the component under study
  \* ---- the decoder object (decode_impl) ----
  ndebug,                \* TRUE when the build defines NDEBUG (assert compiled out)
  d_sf, d_cr, d_header,  \* the configuration members
  d_whitening_table,     \* name of the table the constructor's switch bound
  d_whitening_sequence,  \* contents of the bound table
  \* ---- one invocation of decode ----
  msg,                   \* the u16 vector of the received message
  symbols_in,            \* after to_gray and whiten
  header_symbols_in,     \* as deinterleave leaves them (MSBs swapped in place)
  payload_symbols_in,
  header_codewords,      \* as deinterleave produced them
  payload_codewords,
  header_bytes,          \* as hamming_decode produced them
  payload_bytes,
  output,                \* the u8 vector published on the out port
  \* ---- a single pipeline stage applied to drawn inputs ----
  input,                 \* the buffer as drawn
  sent,                  \* codewords given to the transmitter side, when drawn
  symbols,               \* the symbol buffer, mutated in place
  codewords,             \* the codeword buffer
  corrected,             \* codewords[i] as it stands after the correction step
  bytes,                 \* the output nibbles
  ppm, rdd,              \* the stage's parameters
  calls                  \* the stages applied so far

decoderVars == <<ndebug, d_sf, d_cr, d_header, d_whitening_table>>
packetVars == <<msg, symbols_in, header_symbols_in, payload_symbols_in,
                header_codewords, payload_codewords, header_bytes,
                payload_bytes, output>>
stageVars == <<input, sent, symbols, codewords, corrected, bytes, ppm, rdd, calls>>
vars == <<pc, decoderVars, d_whitening_sequence, packetVars, stageVars>>

----------------------------------------------------------------------------
(* Bit arithmetic on naturals.                                             *)

Pow2Table == <<1, 2, 4, 8, 16, 32, 64, 128, 256, 512, 1024, 2048, 4096,
               8192, 16384, 32768, 65536>>
Pow2(n) == Pow2Table[n + 1]

RECURSIVE BitAnd(_, _)
BitAnd(a, b) ==
  IF a = 0 \/ b = 0 THEN 0
  ELSE (a % 2) * (b % 2) + 2 * BitAnd(a \div 2, b \div 2)

RECURSIVE BitOr(_, _)
BitOr(a, b) ==
  IF a = 0 THEN b ELSE IF b = 0 THEN a
  ELSE (IF a % 2 = 1 \/ b % 2 = 1 THEN 1 ELSE 0) + 2 * BitOr(a \div 2, b \div 2)

RECURSIVE BitXor(_, _)
BitXor(a, b) ==
  IF a = 0 THEN b ELSE IF b = 0 THEN a
  ELSE ((a + b) % 2) + 2 * BitXor(a \div 2, b \div 2)

Shl(a, n) == a * Pow2(n)
Shr(a, n) == a \div Pow2(n)
Bit(a, n) == Shr(a, n) % 2

RECURSIVE PopCount(_)
PopCount(a) == IF a = 0 THEN 0 ELSE (a % 2) + PopCount(a \div 2)

U16(x) == x % 65536
U8(x) == x % 256

\* The elements f[1], ..., f[n] as a sequence value.
Vector(f, n) == SubSeq(f, 1, n)

Min(a, b) == IF a < b THEN a ELSE b
Max(a, b) == IF a > b THEN a ELSE b

----------------------------------------------------------------------------
(* GrayMapper.                                                             *)

to_gray_symbol(v) == U16(BitXor(Shr(v, 1), v))

to_gray(s) == Vector([i \in 1..Len(s) |-> to_gray_symbol(s[i])], Len(s))

\* The inverse mapping of an 8 bit gray code, short of the 16 bit one.
from_gray_symbol_8bit(v) ==
  LET s4 == U16(BitXor(v, Shr(v, 4)))
      s2 == U16(BitXor(s4, Shr(s4, 2)))
  IN U16(BitXor(s2, Shr(s2, 1)))

from_gray_symbol(v) ==
  LET s16 == U16(BitXor(v, Shr(v, 16)))
      s8 == U16(BitXor(s16, Shr(s16, 8)))
      s4 == U16(BitXor(s8, Shr(s8, 4)))
      s2 == U16(BitXor(s4, Shr(s4, 2)))
  IN U16(BitXor(s2, Shr(s2, 1)))

from_gray(s) == Vector([i \in 1..Len(s) |-> from_gray_symbol(s[i])], Len(s))

----------------------------------------------------------------------------
(* Whitener.  The tables and their common length live in decode_impl.h;    *)
(* the length is that of the bound table.                                  *)

whitening_sequence_length == Len(d_whitening_sequence)

\* A loop that stops one element before the end of the table.
whiten_short(s) ==
  Vector([i \in 1..Len(s) |->
            IF i < whitening_sequence_length
            THEN U16(BitXor(s[i], d_whitening_sequence[i]))
            ELSE s[i]], Len(s))

whiten(s) ==
  Vector([i \in 1..Len(s) |->
            IF i <= whitening_sequence_length
            THEN U16(BitXor(s[i], d_whitening_sequence[i]))
            ELSE s[i]], Len(s))

----------------------------------------------------------------------------
(* Deinterleaver.                                                          *)

INTERLEAVER_BLOCK_SIZE == 12

\* An MSB swap that leaves the bits above bit ppm-1 where they are.
swap_msbs_symbol_keep_high(s, p) ==
  U16(BitOr(BitOr(Shr(BitAnd(s, Shl(1, p - 1)), 1),
                  Shl(BitAnd(s, Shl(1, p - 2)), 1)),
            BitOr(BitAnd(s, Shl(1, p - 2) - 1),
                  Shl(Shr(s, p), p))))

\* The MSB swap of one symbol: bits ppm-1 and ppm-2 change places, the bits
\* below are kept, and nothing above bit ppm-1 survives.
swap_msbs_symbol(s, p) ==
  U16(BitOr(BitOr(Shr(BitAnd(s, Shl(1, p - 1)), 1),
                  Shl(BitAnd(s, Shl(1, p - 2)), 1)),
            BitAnd(s, Shl(1, p - 2) - 1)))

swap_msbs(s, p) ==
  Vector([i \in 1..Len(s) |-> swap_msbs_symbol(s[i], p)], Len(s))

\* The bit loop over one interleaver block.  Throughout the loop
\* bit_idx = bitcount % (4+rdd) and bit_offset = bitcount / (4+rdd): the
\* former is reset and the latter stepped at the last bit of each codeword.
\* So block[k] is filled by the 4+rdd turns with bit_offset = k, which
\* diagonal_codeword runs, from bit_idx on, with acc the byte so far.
RECURSIVE diagonal_codeword(_, _, _, _, _, _, _)
diagonal_codeword(s, block_count, p, r, bit_offset, bit_idx, acc) ==
  IF bit_idx >= 4 + r THEN acc
  ELSE
    LET w == 4 + r
        bitcount == bit_offset * w + bit_idx
        sym == s[(bitcount % w) + w * block_count + 1]
        mask == Shr(Shl(1, p - 1), (bit_idx + bit_offset) % p)
    IN diagonal_codeword(s, block_count, p, r, bit_offset, bit_idx + 1,
                         IF BitAnd(sym, mask) # 0
                         THEN U8(BitOr(acc, Shl(1, bitcount % w)))
                         ELSE acc)

\* A bit loop that never steps bit_offset: every codeword reads the same
\* diagonal.
diagonal_loop_no_offset(s, block_count, p, r) ==
  [k \in 0..(INTERLEAVER_BLOCK_SIZE - 1) |->
     IF k < p THEN diagonal_codeword(s, block_count, p, r, 0, 0, 0) ELSE 0]

\* block[] after the bit loop: the bytes 0..ppm-1 are written, the rest of
\* the INTERLEAVER_BLOCK_SIZE bytes keep the 0 of the memset.
diagonal_loop(s, block_count, p, r) ==
  [k \in 0..(INTERLEAVER_BLOCK_SIZE - 1) |->
     IF k < p THEN diagonal_codeword(s, block_count, p, r, k, 0, 0) ELSE 0]

\* Put the bits of one raw codeword into traditional Hamming order.
hamming_order(b, r) ==
  IF r = 4 THEN
    U8(BitOr(BitAnd(b, 128),
       BitOr(BitAnd(b, 64),
       BitOr(Shr(BitAnd(b, 32), 1),
       BitOr(Shr(BitAnd(b, 16), 4),
       BitOr(Shl(BitAnd(b, 8), 2),
       BitOr(Shl(BitAnd(b, 4), 1),
       BitOr(Shl(BitAnd(b, 2), 1),
             Shl(BitAnd(b, 1), 1)))))))))
  ELSE IF r = 3 THEN
    U8(BitOr(BitAnd(b, 64),
       BitOr(BitAnd(b, 32),
       BitOr(Shr(BitAnd(b, 16), 1),
       BitOr(Shl(BitAnd(b, 8), 1),
       BitOr(BitAnd(b, 4),
       BitOr(BitAnd(b, 2),
             BitAnd(b, 1))))))))
  ELSE b

\* One block: memset, the bit loop, then reorder and mask each codeword.
deinterleave_block(s, block_count, p, r) ==
  LET block == diagonal_loop(s, block_count, p, r)
  IN Vector([cw_idx \in 1..p |->
               BitAnd(hamming_order(block[cw_idx - 1], r), Shl(1, 4 + r) - 1)],
            p)

\* Number of blocks the block loop visits: symbols.size()/(4+rdd).
block_total(n, r) == n \div (4 + r)

RECURSIVE deinterleave_blocks(_, _, _, _, _)
deinterleave_blocks(s, block_count, p, r, cws) ==
  IF block_count >= block_total(Len(s), r) THEN cws
  ELSE deinterleave_blocks(s, block_count + 1, p, r,
                           cws \o deinterleave_block(s, block_count, p, r))

\* deinterleave(symbols, codewords, ppm, rdd): both buffers as it leaves them.
deinterleave(s, cws, p, r) ==
  LET swapped == swap_msbs(s, p)
  IN [symbols |-> swapped,
      codewords |-> deinterleave_blocks(swapped, 0, p, r, cws)]

----------------------------------------------------------------------------
(* HammingDecoder.                                                         *)

HAMMING_T1_BITMASK == 170   \* 0xAA
HAMMING_T2_BITMASK == 102   \* 0x66
HAMMING_T4_BITMASK == 30    \* 0x1E
HAMMING_T8_BITMASK == 254   \* 0xFE

RECURSIVE parity_loop(_, _, _)
parity_loop(shiftme, i, par) ==
  IF i >= 8 THEN par
  ELSE parity_loop(Shr(shiftme, 1), i + 1,
                   IF BitAnd(shiftme, 1) # 0 THEN par + 1 ELSE par)

parity(c, bitmask) == parity_loop(BitAnd(c, bitmask), 0, 0) % 2

\* What an unsigned char that was never assigned may hold.
Indeterminate == {0, 1, 255}

\* The switch with fallthrough: rdd selects the first check computed, every
\* lower one follows.  u holds what t1, t2, t4, t8 contain when the switch
\* leaves them unassigned.
hamming_checks(c, r, u) ==
  [t8 |-> IF r = 4 THEN parity(c, HAMMING_T8_BITMASK) ELSE u.t8,
   t4 |-> IF r \in {3, 4}
          THEN parity(c, Shr(HAMMING_T4_BITMASK, 4 - r)) ELSE u.t4,
   t2 |-> IF r \in {2, 3, 4}
          THEN parity(c, Shr(HAMMING_T2_BITMASK, 4 - r)) ELSE u.t2,
   t1 |-> IF r \in {1, 2, 3, 4}
          THEN parity(c, Shr(HAMMING_T1_BITMASK, 4 - r)) ELSE u.t1]

error_position(t) ==
  -1 + (IF t.t1 # 0 THEN 1 ELSE 0)
     + (IF t.t2 # 0 THEN 2 ELSE 0)
     + (IF t.t4 # 0 THEN 4 ELSE 0)

\* A correction step that acts on the checks at every redundancy.
correct_codeword_every_rdd(c, r, t) ==
  LET error_pos == error_position(t)
      num_set_flags == t.t1 + t.t2 + t.t4
  IN IF error_pos >= 0 /\ num_set_flags < 3
     THEN U8(BitXor(c, Shr(Shr(128, 4 - r), error_pos)))
     ELSE c

\* The correction step: only for rdd > 2, and only when fewer than three of
\* the checks t1, t2, t4 are set.
correct_codeword(c, r, t) ==
  LET error_pos == error_position(t)
      num_set_flags == t.t1 + t.t2 + t.t4
  IN IF r > 2 /\ error_pos >= 0 /\ num_set_flags < 3
     THEN U8(BitXor(c, Shr(Shr(128, 4 - r), error_pos)))
     ELSE c

RECURSIVE count_set_bits(_, _, _)
count_set_bits(c, bit_idx, num_set_bits) ==
  IF bit_idx >= 8 THEN num_set_bits
  ELSE count_set_bits(c, bit_idx + 1,
                      IF BitAnd(c, Shl(1, bit_idx)) # 0
                      THEN num_set_bits + 1 ELSE num_set_bits)

\* A decoder without the confidence threshold.
threshold_codeword_absent(c, r) == c

\* A decoder that thresholds at every corrective redundancy.
threshold_codeword_every_rdd(c, r) ==
  LET num_set_bits == count_set_bits(c, 0, 0)
  IN IF num_set_bits < 3 THEN 0
     ELSE IF num_set_bits > 5 THEN U8(Shl(1, 4 + r) - 1)
     ELSE c

\* The confidence threshold, applied at rdd = 4 alone.
threshold_codeword(c, r) ==
  LET num_set_bits == count_set_bits(c, 0, 0)
  IN IF r = 4 /\ num_set_bits < 3 THEN 0
     ELSE IF r = 4 /\ num_set_bits > 5 THEN 255
     ELSE c

\* The data bits of a codeword in Hamming order.
extract_nibble(c, r) ==
  IF r \in {1, 2} THEN BitAnd(c, 15)
  ELSE IF r = 3 THEN
    BitAnd(BitOr(Shr(BitAnd(c, 16), 1),
           BitOr(BitAnd(c, 4),
           BitOr(BitAnd(c, 2), BitAnd(c, 1)))), 15)
  ELSE IF r = 4 THEN
    BitAnd(BitOr(Shr(BitAnd(c, 32), 2),
           BitOr(Shr(BitAnd(c, 8), 1),
           BitOr(Shr(BitAnd(c, 4), 1), Shr(BitAnd(c, 2), 1)))), 15)
  ELSE c

\* The part of the loop body that runs for rdd > 2 after the correction:
\* the set bits are counted and, at rdd = 4, the threshold applied.
threshold_step(c, r) == IF r > 2 THEN threshold_codeword(c, r) ELSE c

\* One turn of the loop over the codewords.
hamming_decode_codeword(c, r, u) ==
  LET fixed == correct_codeword(c, r, hamming_checks(c, r, u))
      nibble == extract_nibble(threshold_step(fixed, r), r)
  IN [corrected |-> fixed, codeword |-> nibble, byte |-> BitAnd(nibble, 15)]

\* hamming_decode(codewords, bytes, rdd): the buffers as it leaves them.
hamming_decode(cws, bs, r, u) ==
  LET n == Len(cws)
      each == Vector([i \in 1..n |-> hamming_decode_codeword(cws[i], r, u)], n)
  IN [codewords |-> Vector([i \in 1..n |-> each[i].codeword], n),
      corrected |-> Vector([i \in 1..n |-> each[i].corrected], n),
      bytes |-> bs \o Vector([i \in 1..n |-> each[i].byte], n)]

----------------------------------------------------------------------------
(* The decoder object: construction and the decode message handler.        *)

MaxPktLen == 17          \* longest message drawn
MaxWhiteningLen == 3     \* longest whitening table drawn
MaxStageLen == 3         \* longest buffer drawn for a single stage

Empty == <<>>

NoPacket ==
  /\ msg = Empty /\ symbols_in = Empty
  /\ header_symbols_in = Empty /\ payload_symbols_in = Empty
  /\ header_codewords = Empty /\ payload_codewords = Empty
  /\ header_bytes = Empty /\ payload_bytes = Empty
  /\ output = Empty

NoStage ==
  /\ input = Empty /\ sent = Empty /\ symbols = Empty /\ codewords = Empty
  /\ corrected = Empty /\ bytes = Empty /\ ppm = 0 /\ rdd = 0 /\ calls = Empty

NoDecoder ==
  /\ d_sf = 0 /\ d_cr = 0 /\ d_header = FALSE /\ d_whitening_table = "none"

\* The three assertions of the constructor.
assertions_hold(sf, cr, header) ==
  /\ (sf > 5) /\ (sf < 13)
  /\ (cr > 0) /\ (cr < 5)
  /\ (sf = 6 => ~header)

\* The switch on d_sf; case 6 has no break and runs into case 7.
whitening_switch(sf, header) ==
  IF sf \in {6, 7} THEN "whitening_sequence_sf7_implicit"
  ELSE IF sf = 8 THEN (IF header THEN "whitening_sequence_sf8_explicit"
                                 ELSE "whitening_sequence_sf8_implicit")
  ELSE IF sf = 9 THEN "whitening_sequence_sf9_implicit"
  ELSE IF sf = 10 THEN "whitening_sequence_sf10_implicit"
  ELSE IF sf = 11 THEN "whitening_sequence_sf11_implicit"
  ELSE IF sf = 12 THEN "whitening_sequence_sf12_implicit"
  ELSE "whitening_sequence_sf8_implicit"

\* Contents a whitening table may have (the tables are data of decode_impl.h).
WhiteningTables ==
  {[i \in 1..MaxWhiteningLen |-> v] : v \in {0, 21845}}

\* decode_impl::decode_impl.  With assertions compiled in, a failed assert
\* aborts the process; with NDEBUG the constructor runs to its end.
Construct(spreading_factor, code_rate, header) ==
  /\ pc = "new"
  /\ d_sf' = spreading_factor
  /\ d_cr' = code_rate
  /\ d_header' = header
  /\ IF ~ndebug /\ ~assertions_hold(spreading_factor, code_rate, header)
     THEN /\ pc' = "aborted"
          /\ UNCHANGED <<d_whitening_table, d_whitening_sequence>>
     ELSE /\ pc' = "idle"
          /\ d_whitening_table' = whitening_switch(spreading_factor, header)
          /\ d_whitening_sequence' \in WhiteningTables
  /\ UNCHANGED <<ndebug, packetVars, stageVars>>

\* The configurations on which every shift and array index of decode is in
\* range, so that the C++ defines its result.
decode_defined(sf, cr) == sf \in 4..INTERLEAVER_BLOCK_SIZE /\ cr \in 0..4

\* The checks the switch of hamming_decode leaves unassigned and the code
\* then reads (t8 is never read).
unassigned_checks(r) ==
  {u \in [t1 : Indeterminate, t2 : Indeterminate, t4 : Indeterminate, t8 : {0}] :
     /\ (r \in {1, 2, 3, 4} => u.t1 = 0)
     /\ (r \in {2, 3, 4} => u.t2 = 0)
     /\ (r \in {3, 4} => u.t4 = 0)}

\* A decoder that forgets the reduced rate of the header.
header_ppm_full_rate(sf) == U8(sf)
header_ppm(sf) == U8(sf - 2)
\* A decoder that reads the header at the configured code rate.
header_rdd_configured == d_cr
header_rdd == 4
payload_ppm(sf) == U8(sf)
payload_rdd(cr) == U8(cr)

\* The header symbols and the payload symbols of a whitened buffer.
header_part(s) == SubSeq(s, 1, Min(Len(s), 8))
\* A payload that starts one symbol early, on the last header symbol.
payload_part_early(s) == SubSeq(s, 8, Len(s))
payload_part(s) == SubSeq(s, 9, Len(s))

\* decode up to the two deinterleave calls: the whitened buffer and what
\* deinterleave leaves of the header and of the payload.
decode_deinterleave(m, sf, cr) ==
  LET whitened == whiten(to_gray(m))
  IN [symbols_in |-> whitened,
      header |-> deinterleave(header_part(whitened), Empty,
                              header_ppm(sf), header_rdd),
      payload |-> deinterleave(payload_part(whitened), Empty,
                               payload_ppm(sf), payload_rdd(cr))]

\* decode_impl::decode on a configuration for which the code is defined.
Decode(m) ==
  /\ pc = "idle"
  /\ decode_defined(d_sf, d_cr)
  /\ \E d \in {decode_deinterleave(m, d_sf, d_cr)} :
     \E uh \in unassigned_checks(header_rdd),
        up \in unassigned_checks(payload_rdd(d_cr)) :
     \E hh \in {hamming_decode(d.header.codewords, Empty, header_rdd, uh)},
        ph \in {hamming_decode(d.payload.codewords, Empty,
                               payload_rdd(d_cr), up)} :
       /\ msg' = m
       /\ symbols_in' = d.symbols_in
       /\ header_symbols_in' = d.header.symbols
       /\ payload_symbols_in' = d.payload.symbols
       /\ header_codewords' = d.header.codewords
       /\ payload_codewords' = d.payload.codewords
       /\ header_bytes' = hh.bytes
       /\ payload_bytes' = ph.bytes
       /\ output' = hh.bytes \o ph.bytes
  /\ pc' = "published"
  /\ UNCHANGED <<decoderVars, d_whitening_sequence, stageVars>>

\* What decode may publish where the C++ defines nothing (a shift by a
\* negative count at code_rate 5, block[] overrun at spreading_factor 13).
UndefinedOutputs == {Empty, <<0>>, <<15>>}

DecodeUndefined(m) ==
  /\ pc = "idle"
  /\ ~decode_defined(d_sf, d_cr)
  /\ msg' = m
  /\ output' \in UndefinedOutputs
  /\ pc' = "published"
  /\ UNCHANGED <<decoderVars, d_whitening_sequence, stageVars,
                 symbols_in, header_symbols_in, payload_symbols_in,
                 header_codewords, payload_codewords, header_bytes,
                 payload_bytes>>

\* decode has returned and the published message is taken from the port:
\* the locals are gone and the block waits for the next message.
Consume ==
  /\ pc = "published"
  /\ pc' = "idle"
  /\ msg' = Empty /\ symbols_in' = Empty
  /\ header_symbols_in' = Empty /\ payload_symbols_in' = Empty
  /\ header_codewords' = Empty /\ payload_codewords' = Empty
  /\ header_bytes' = Empty /\ payload_bytes' = Empty
  /\ output' = Empty
  /\ UNCHANGED <<decoderVars, d_whitening_sequence, stageVars>>

\* The messages drawn for a decoder of spreading factor sf: n symbols, each
\* below 2^sf, stepping through the symbol range from either end.
Messages(sf) ==
  {Vector([i \in 1..n |-> (a + i * 37) % Pow2(sf)], n) :
     n \in 0..MaxPktLen, a \in {0, Pow2(sf) - 1}}

ConstructorArguments == (5..13) \X (0..5) \X BOOLEAN

Init ==
  /\ pc = "new"
  /\ ndebug \in BOOLEAN
  /\ NoDecoder
  /\ d_whitening_sequence = Empty
  /\ NoPacket
  /\ NoStage

Next ==
  \/ \E a \in ConstructorArguments : Construct(a[1], a[2], a[3])
  \/ \E m \in Messages(d_sf) : Decode(m)
  \/ \E m \in Messages(d_sf) : DecodeUndefined(m)
  \/ Consume

Spec == Init /\ [][Next]_vars

----------------------------------------------------------------------------
(* Properties of the decode handler.                                       *)

RECURSIVE SumPopCount(_, _, _)
SumPopCount(s, from, to) ==
  IF from > to THEN 0 ELSE PopCount(s[from]) + SumPopCount(s, from + 1, to)

Published == pc = "published"
ValidConfiguration == assertions_hold(d_sf, d_cr, d_header)

HeaderLength(n) == (d_sf - 2) * (Min(n, 8) \div 8)
PayloadLength(n) == d_sf * (Max(n - 8, 0) \div (4 + d_cr))

\* C1: on a valid configuration decode publishes one byte per deinterleaved
\* codeword, header bytes first: the header comes from symbols[0:8) with
\* ppm = SF-2 and rdd = 4 whatever CR is, the payload from symbols[8:n) with
\* ppm = SF and rdd = CR, so the output has
\* (SF-2)*floor(min(n,8)/8) + SF*floor(max(n-8,0)/(4+CR)) bytes and a partial
\* trailing payload block adds nothing.  Every bit of a complete block ends
\* in a codeword, which fixes the block shapes: 8 symbols of SF-2 bits for
\* the header, 4+CR symbols of SF bits for the payload.
C1_OneBytePerCodeword ==
  (Published /\ ValidConfiguration) =>
    LET n == Len(msg)
        full == (4 + d_cr) * (Len(payload_symbols_in) \div (4 + d_cr))
    IN /\ Len(header_symbols_in) = Min(n, 8)
       /\ Len(payload_symbols_in) = Max(n - 8, 0)
       /\ Len(header_codewords) = HeaderLength(n)
       /\ Len(payload_codewords) = PayloadLength(n)
       /\ Len(header_bytes) = Len(header_codewords)
       /\ Len(payload_bytes) = Len(payload_codewords)
       /\ output = header_bytes \o payload_bytes
       /\ Len(output) = HeaderLength(n) + PayloadLength(n)
       /\ \A i \in 1..Len(header_symbols_in) :
            header_symbols_in[i] < Pow2(d_sf - 2)
       /\ \A i \in 1..Len(payload_symbols_in) :
            payload_symbols_in[i] < Pow2(d_sf)
       /\ \A i \in 1..Len(header_codewords) : header_codewords[i] < Pow2(8)
       /\ \A i \in 1..Len(payload_codewords) :
            payload_codewords[i] < Pow2(4 + d_cr)
       /\ SumPopCount(header_codewords, 1, Len(header_codewords))
            = SumPopCount(header_symbols_in, 1,
                          8 * (Len(header_symbols_in) \div 8))
       /\ SumPopCount(payload_codewords, 1, Len(payload_codewords))
            = SumPopCount(payload_symbols_in, 1, full)
       /\ \A i \in 1..Len(output) : output[i] < 16

\* A valid decoder has published a header and one payload block's worth of
\* bytes, and dropped a partial second block.
C1_Witness ==
  /\ Published /\ ValidConfiguration
  /\ d_cr # 4
  /\ Len(header_bytes) = d_sf - 2
  /\ Len(payload_bytes) = d_sf
  /\ Len(msg) > 8 + (4 + d_cr)
  /\ \E i \in 1..Len(output) : output[i] # 0

EndToEndScenario ==
  Published /\ d_sf = 7 /\ d_cr = 4 /\ d_header /\ Len(msg) = 14

\* C2 as stated: SF=7, CR=4, header_present, 14 symbols in: 2 header bytes,
\* then the nibble bytes decoded from the 6 payload symbols.
C2_TwoHeaderBytes ==
  EndToEndScenario =>
    /\ Len(header_bytes) = 2
    /\ output = header_bytes \o payload_bytes

\* C2 amended: SF=7, CR=4, header_present, 14 symbols in: 5 header bytes
\* (one per codeword of the 8-symbol header block, SF-2 = 5 of them, each
\* holding one nibble) and no payload byte, the 6 payload symbols being
\* short of a block of 4+CR = 8.
C2_FiveHeaderBytes ==
  EndToEndScenario =>
    /\ Len(header_bytes) = 5
    /\ payload_bytes = Empty
    /\ Len(payload_symbols_in) = 6
    /\ output = header_bytes
    /\ \A i \in 1..Len(output) : output[i] < 16

C2_Witness ==
  /\ EndToEndScenario
  /\ Len(output) = 5
  /\ \A i \in 1..Len(msg) : msg[i] < 128

\* C3: a message of fewer than 8 symbols (the empty one too) is decoded
\* without error (a valid decoder waiting for a message is one on which
\* decode is defined, whatever the message), yields no payload nibble and
\* no header nibble: the partial header block is dropped, not decoded.
C3_ShortPacket ==
  /\ (pc = "idle" /\ ValidConfiguration) => decode_defined(d_sf, d_cr)
  /\ (Published /\ ValidConfiguration /\ Len(msg) < 8) =>
       /\ Len(header_symbols_in) = Len(msg)
       /\ payload_symbols_in = Empty
       /\ header_codewords = Empty
       /\ header_bytes = Empty
       /\ payload_bytes = Empty
       /\ output = Empty

C3_Witness ==
  /\ Published /\ ValidConfiguration
  /\ Len(msg) = 7
  /\ d_cr = 1
  /\ output = Empty

\* C4: an invalid configuration (spreading_factor outside 6..12, code_rate
\* outside 1..4, or spreading_factor 6 with a header) fails construction,
\* so that no decoder holding one is ever ready to decode or decoding.
C4_InvalidNeverConstructed ==
  (pc \in {"idle", "published"}) => ValidConfiguration

----------------------------------------------------------------------------
(* GrayMapper on its own: both mappings applied, in either order, to every *)
(* 16 bit value.                                                           *)

StageIdle ==
  /\ ndebug = FALSE /\ NoDecoder /\ NoPacket
  /\ sent = Empty /\ codewords = Empty /\ corrected = Empty /\ bytes = Empty
  /\ calls = Empty

Called(f) == \E i \in 1..Len(calls) : calls[i] = f

InitGray ==
  /\ pc = "gray"
  /\ StageIdle
  /\ d_whitening_sequence = Empty
  /\ ppm = 0 /\ rdd = 0
  /\ input \in {<<v, Pow2(16) - 1 - v>> : v \in 0..(Pow2(16) - 1)}
  /\ symbols = input

ToGray ==
  /\ pc = "gray"
  /\ ~Called("to_gray")
  /\ symbols' = to_gray(symbols)
  /\ calls' = Append(calls, "to_gray")
  /\ UNCHANGED <<pc, decoderVars, d_whitening_sequence, packetVars,
                 input, sent, codewords, corrected, bytes, ppm, rdd>>

FromGray ==
  /\ pc = "gray"
  /\ ~Called("from_gray")
  /\ symbols' = from_gray(symbols)
  /\ calls' = Append(calls, "from_gray")
  /\ UNCHANGED <<pc, decoderVars, d_whitening_sequence, packetVars,
                 input, sent, codewords, corrected, bytes, ppm, rdd>>

NextGray == ToGray \/ FromGray

SpecGray == InitGray /\ [][NextGray]_vars

\* C8: for every 16 bit value v, from_gray(to_gray(v)) = v and
\* to_gray(from_gray(v)) = v, element by element of a symbol sequence.
C8_GrayRoundTrip ==
  (pc = "gray" /\ Len(calls) = 2) => symbols = input

C8_Witness ==
  /\ pc = "gray"
  /\ calls = <<"from_gray", "to_gray">>
  /\ input[1] = 43981
  /\ symbols = input

----------------------------------------------------------------------------
(* Whitener on its own: a bound table and a symbol buffer, both drawn.     *)

MaxWhitenCalls == 2

RECURSIVE SeqsUpTo(_, _)
SeqsUpTo(S, n) ==
  IF n = 0 THEN {Empty}
  ELSE LET shorter == SeqsUpTo(S, n - 1)
       IN shorter \cup {Append(q, v) : q \in {x \in shorter : Len(x) = n - 1},
                                       v \in S}

StageSymbols == {0, 4660, 65535}
WhiteningValues == {0, 255, 43690}

InitWhiten ==
  /\ pc = "whiten"
  /\ StageIdle
  /\ d_whitening_sequence \in SeqsUpTo(WhiteningValues, MaxWhiteningLen)
  /\ ppm = 0 /\ rdd = 0
  /\ input \in SeqsUpTo(StageSymbols, MaxStageLen)
  /\ symbols = input

Whiten ==
  /\ pc = "whiten"
  /\ Len(calls) < MaxWhitenCalls
  /\ symbols' = whiten(symbols)
  /\ calls' = Append(calls, "whiten")
  /\ UNCHANGED <<pc, decoderVars, d_whitening_sequence, packetVars,
                 input, sent, codewords, corrected, bytes, ppm, rdd>>

NextWhiten == Whiten

SpecWhiten == InitWhiten /\ [][NextWhiten]_vars

\* C9: with the bound whitening sequence fixed, whiten applied twice gives
\* the symbols back; applied once it XORs symbol i with element i of the
\* sequence for every i below both lengths, leaves the symbols from the
\* sequence length on as they were, and never changes how many there are.
C9_WhitenInvolution ==
  (pc = "whiten") =>
    /\ Len(symbols) = Len(input)
    /\ (Len(calls) % 2 = 0) => symbols = input
    /\ (Len(calls) % 2 = 1) =>
         \A i \in 1..Len(input) :
           IF i <= Len(d_whitening_sequence)
           THEN \A k \in 0..15 :
                  Bit(symbols[i], k)
                    = (Bit(input[i], k) + Bit(d_whitening_sequence[i], k)) % 2
           ELSE symbols[i] = input[i]

\* Whitened twice, with a table shorter than the buffer that changed its
\* first symbols only.
C9_Witness ==
  /\ pc = "whiten"
  /\ Len(calls) = 2
  /\ Len(input) = 3
  /\ Len(d_whitening_sequence) = 2
  /\ d_whitening_sequence[2] = 43690
  /\ symbols = input
  /\ whiten(input) # input

----------------------------------------------------------------------------
(* HammingDecoder on its own: every redundancy, every 8 bit codeword.      *)

InitHamming ==
  /\ pc = "hamming"
  /\ StageIdle
  /\ d_whitening_sequence = Empty
  /\ ppm = 0
  /\ rdd \in 1..4
  /\ symbols = Empty
  /\ input \in {<<c, 255 - c>> : c \in 0..255}

HammingDecode ==
  /\ pc = "hamming"
  /\ \E u \in unassigned_checks(rdd) :
     \E h \in {hamming_decode(input, Empty, rdd, u)} :
       /\ codewords' = h.codewords
       /\ corrected' = h.corrected
       /\ bytes' = h.bytes
  /\ calls' = Append(calls, "hamming_decode")
  /\ pc' = "hamming_decoded"
  /\ UNCHANGED <<decoderVars, d_whitening_sequence, packetVars,
                 input, sent, symbols, ppm, rdd>>

NextHamming == HammingDecode

SpecHamming == InitHamming /\ [][NextHamming]_vars

HammingDecoded == pc = "hamming_decoded"

\* The parity over the bits of c at the positions in S.
BitParity(c, S) == Cardinality({k \in S : Bit(c, k) = 1}) % 2

\* The checks of the code at redundancy 4 (masks 0xAA, 0x66, 0x1E, 0xFE)
\* and at redundancy 3 (the first three, one bit lower), by bit position.
CheckPositions(r) ==
  IF r = 4 THEN <<{7, 5, 3, 1}, {6, 5, 2, 1}, {4, 3, 2, 1}, {7, 6, 5, 4, 3, 2, 1}>>
  ELSE <<{6, 4, 2, 0}, {5, 4, 1, 0}, {3, 2, 1, 0}>>

\* A codeword all of whose parity checks are zero.
ErrorFree(c, r) ==
  \A k \in 1..Len(CheckPositions(r)) : BitParity(c, CheckPositions(r)[k]) = 0

\* The data bits of a codeword: bits 5, 3, 2, 1 at redundancy 4 and bits
\* 4, 2, 1, 0 at redundancy 3.
DataBits(c, r) ==
  IF r = 4 THEN 8 * Bit(c, 5) + 4 * Bit(c, 3) + 2 * Bit(c, 2) + Bit(c, 1)
  ELSE 8 * Bit(c, 4) + 4 * Bit(c, 2) + 2 * Bit(c, 1) + Bit(c, 0)

\* C6: at rdd = 4 the all-zero codeword with one of its 8 bits flipped
\* decodes to 0x0, the all-ones codeword with one of its 8 bits flipped to
\* 0xF, and a codeword whose checks t1, t2, t4, t8 are all zero to its own
\* data bits (bits 5, 3, 2, 1).
C6_SingleFlipAndErrorFree ==
  (HammingDecoded /\ rdd = 4) =>
    \A i \in 1..Len(input) :
      /\ PopCount(input[i]) = 1 => bytes[i] = 0
      /\ PopCount(input[i]) = 7 => bytes[i] = 15
      /\ ErrorFree(input[i], 4) => bytes[i] = DataBits(input[i], 4)

\* 0xFD (all ones, bit 1 flipped) and 0x02 (all zero, bit 1 flipped) decoded.
C6_Witness ==
  /\ HammingDecoded /\ rdd = 4
  /\ input = <<253, 2>>
  /\ bytes = <<15, 0>>

\* C7: at rdd = 4, a codeword that after the correction step has at most 2
\* set bits gives 0x0, one with at least 6 gives 0xF, one with 3, 4 or 5 is
\* used as corrected; at any other rdd nothing is forced: the data bits of
\* the corrected codeword (rdd = 3) or the low four bits of the codeword as
\* received (rdd = 1, 2) come out.
C7_ThresholdForcing ==
  HammingDecoded =>
    \A i \in 1..Len(input) :
      LET n == PopCount(corrected[i])
      IN /\ (rdd = 4 /\ n <= 2) => bytes[i] = 0
         /\ (rdd = 4 /\ n >= 6) => bytes[i] = 15
         /\ (rdd = 4 /\ n \in 3..5) => bytes[i] = DataBits(corrected[i], 4)
         /\ rdd = 3 => bytes[i] = DataBits(corrected[i], 3)
         /\ rdd \in {1, 2} => /\ corrected[i] = input[i]
                              /\ bytes[i] = input[i] % 16

\* 0x02 stays 0x02 through the correction step and is forced to 0x00,
\* 0xFD stays 0xFD and is forced to 0xFF: neither nibble is the codeword's
\* own data bits.
C7_Witness ==
  /\ HammingDecoded /\ rdd = 4
  /\ PopCount(corrected[1]) <= 2
  /\ DataBits(corrected[1], 4) # 0 /\ bytes[1] = 0
  /\ PopCount(corrected[2]) >= 6
  /\ DataBits(corrected[2], 4) # 15 /\ bytes[2] = 15

\* C10: at rdd = 3 and rdd = 4, a codeword of 4+rdd bits that differs in
\* exactly one bit from a codeword whose parity checks are all zero decodes
\* to the data nibble of that codeword.
C10_SingleBitCorrection ==
  (HammingDecoded /\ rdd \in {3, 4}) =>
    \A i \in 1..Len(input) :
      \A v \in 0..(Pow2(4 + rdd) - 1) :
        (/\ input[i] < Pow2(4 + rdd)
         /\ ErrorFree(v, rdd)
         /\ PopCount(BitXor(v, input[i])) = 1)
        => bytes[i] = DataBits(v, rdd)

\* Every value the checks t1, t2, t4, t8 may hold when the correction step
\* reads them, computed or left unassigned.
CheckValues == [t1 : Indeterminate, t2 : Indeterminate, t4 : Indeterminate,
                t8 : Indeterminate]

\* C11: at rdd = 1 and rdd = 2 hamming_decode gives for every codeword its
\* low 4 bits (codeword AND 0x0F), one nibble per codeword and no error
\* state, the codeword is left uncorrected, and no value of the checks t1,
\* t2, t4, t8, computed or left unassigned by the switch, changes the nibble.
C11_LowRedundancyPassThrough ==
  /\ pc \in {"hamming", "hamming_decoded"}
  /\ (HammingDecoded /\ rdd \in {1, 2}) =>
       /\ Len(bytes) = Len(input)
       /\ \A i \in 1..Len(input) :
            /\ bytes[i] = BitAnd(input[i], 15)
            /\ corrected[i] = input[i]
            /\ \A t \in CheckValues :
                 extract_nibble(threshold_step(correct_codeword(input[i], rdd, t),
                                               rdd), rdd) = bytes[i]

\* 0xB5 at rdd = 1: t1 is computed as 1 and t2 may be read as nonzero, so
\* the checks name an error position, and still 0x5 comes out; 0x4A gives
\* 0xA.
C11_Witness ==
  /\ HammingDecoded /\ rdd = 1
  /\ input = <<181, 74>>
  /\ bytes = <<5, 10>>
  /\ hamming_checks(input[1], rdd, [t1 |-> 0, t2 |-> 0, t4 |-> 0, t8 |-> 0]).t1 = 1
  /\ \E u \in unassigned_checks(rdd) :
       /\ u.t2 # 0
       /\ error_position(hamming_checks(input[1], rdd, u)) >= 0

----------------------------------------------------------------------------
(* Deinterleaver on its own: one full block of 4+rdd symbols, for every    *)
(* ppm in 4..12 and rdd in 1..4.  The block is drawn as symbols, or as the *)
(* codewords a transmitter interleaves into symbols.                       *)

\* The forward interleaver of the transmitter, bit by bit: where
\* deinterleave is to find each bit.  Bit j of raw codeword c travels in
\* symbol j, at bit ppm-1-((j+c) mod ppm) of the symbol with its two MSBs
\* swapped; raw bit j is bit HammingPosition(j) of the codeword in Hamming
\* order.
HammingPosition(j, r) ==
  IF r = 4 THEN <<1, 2, 3, 5, 0, 4, 6, 7>>[j + 1]
  ELSE IF r = 3 THEN <<0, 1, 2, 4, 3, 5, 6>>[j + 1]
  ELSE j

SwapPosition(q, p) ==
  IF q = p - 1 THEN p - 2 ELSE IF q = p - 2 THEN p - 1 ELSE q

RECURSIVE interleave_bits(_, _, _, _, _)
interleave_bits(cws, p, r, j, q) ==
  IF q >= p THEN 0
  ELSE Pow2(SwapPosition(q, p))
         * Bit(cws[((p - 1 - q - j) % p) + 1], HammingPosition(j, r))
       + interleave_bits(cws, p, r, j, q + 1)

interleave(cws, p, r) ==
  Vector([j \in 1..(4 + r) |-> interleave_bits(cws, p, r, j - 1, 0)], 4 + r)

\* The blocks drawn: n values of width bits each; one bit set in the whole
\* block, one bit clear in the whole block, or values stepping through the
\* range.
Blocks(n, width) ==
  {Vector([j \in 1..n |-> IF j = k THEN Pow2(b) ELSE 0], n) :
     k \in 1..n, b \in 0..(width - 1)}
  \cup {Vector([j \in 1..n |-> IF j = k THEN Pow2(width) - 1 - Pow2(b)
                               ELSE Pow2(width) - 1], n) :
          k \in 1..n, b \in 0..(width - 1)}
  \cup {Vector([j \in 1..n |-> (a + j * step) % Pow2(width)], n) :
          a \in {0, 1, Pow2(width) - 1}, step \in {0, 1, 37, 101}}

InitDeinterleave ==
  /\ pc = "deinterleave"
  /\ ndebug = FALSE /\ NoDecoder /\ NoPacket
  /\ d_whitening_sequence = Empty
  /\ codewords = Empty /\ corrected = Empty /\ bytes = Empty /\ calls = Empty
  /\ ppm \in 4..12
  /\ rdd \in 1..4
  /\ \/ /\ sent = Empty
        /\ input \in Blocks(4 + rdd, ppm)
     \/ /\ sent \in Blocks(ppm, 4 + rdd)
        /\ input = interleave(sent, ppm, rdd)
  /\ symbols = input

Deinterleave ==
  /\ pc = "deinterleave"
  /\ \E d \in {deinterleave(symbols, codewords, ppm, rdd)} :
       /\ symbols' = d.symbols
       /\ codewords' = d.codewords
  /\ calls' = Append(calls, "deinterleave")
  /\ pc' = "deinterleaved"
  /\ UNCHANGED <<decoderVars, d_whitening_sequence, packetVars,
                 input, sent, corrected, bytes, ppm, rdd>>

NextDeinterleave == Deinterleave

SpecDeinterleave == InitDeinterleave /\ [][NextDeinterleave]_vars

Deinterleaved == pc = "deinterleaved"

\* C5: for every ppm in 4..12 and rdd in 1..4, deinterleave of one full
\* block of 4+rdd symbols below 2^ppm gives ppm codewords below 2^(4+rdd),
\* one to one and onto: each of the ppm*(4+rdd) input bits is found at
\* exactly one output bit, so the forward interleaver applied to the
\* codewords gives the symbols back, and the codewords a transmitter
\* interleaved come out as they went in.
C5_DeinterleaveBijection ==
  Deinterleaved =>
    /\ Len(input) = 4 + rdd
    /\ \A j \in 1..Len(input) : input[j] < Pow2(ppm)
    /\ Len(codewords) = ppm
    /\ \A i \in 1..Len(codewords) : codewords[i] < Pow2(4 + rdd)
    /\ SumPopCount(codewords, 1, Len(codewords))
         = SumPopCount(input, 1, Len(input))
    /\ interleave(codewords, ppm, rdd) = input
    /\ sent # Empty => codewords = sent

\* Twelve 5 bit codewords that went through the interleaver and came back.
C5_Witness ==
  /\ Deinterleaved
  /\ ppm = 12 /\ rdd = 1
  /\ sent # Empty
  /\ codewords = sent
  /\ \E i \in 1..Len(sent) : sent[i] \notin {0, 31}
  /\ input # symbols

----------------------------------------------------------------------------
(* Deinterleaver on buffers of 16 bit symbols: bits above the ppm wide     *)
(* field are set, and the buffer may run past its one full block.          *)

MaxTail == 1

\* What the symbols carry above bit ppm-1, per symbol: bits ppm and ppm+1
\* (bits SF-2 and SF-1 of a header symbol, where ppm = SF-2), one of the
\* two in turn, every bit up to bit 15, or bit ppm of the first symbol
\* alone.
HighParts(n, width) ==
  {Vector([j \in 1..n |-> 3], n),
   Vector([j \in 1..n |-> 1 + (j % 2)], n),
   Vector([j \in 1..n |-> Pow2(16 - width) - 1], n),
   Vector([j \in 1..n |-> IF j = 1 THEN 1 ELSE 0], n)}

WideBlocks(n, width) ==
  {Vector([j \in 1..n |-> b[j] + Pow2(width) * h[j]], n) :
     b \in Blocks(n, width), h \in HighParts(n, width)}

InitDeinterleaveWide ==
  /\ pc = "deinterleave"
  /\ StageIdle
  /\ d_whitening_sequence = Empty
  /\ ppm \in 4..12
  /\ rdd \in 1..4
  /\ \E tail \in 0..MaxTail : input \in WideBlocks(4 + rdd + tail, ppm)
  /\ symbols = input

NextDeinterleaveWide == Deinterleave

SpecDeinterleaveWide == InitDeinterleaveWide /\ [][NextDeinterleaveWide]_vars

\* The buffer with every symbol cut to its low width bits.
LowBits(s, width) ==
  Vector([j \in 1..Len(s) |-> s[j] % Pow2(width)], Len(s))

\* C12: the codewords deinterleave(symbols, ppm, rdd) produces depend only
\* on bits 0..ppm-1 of each symbol: a buffer and the buffer cut to its low
\* ppm bits (hence any two buffers that agree on those bits) give the same
\* codewords, and after the MSB swap every symbol of the buffer is below
\* 2^ppm.  With ppm = SF-2 and rdd = 4 these are the header codewords, so
\* the header nibbles do not depend on bits SF-2 and SF-1 of the symbols.
C12_LowBitsOnly ==
  Deinterleaved =>
    \E d \in {deinterleave(LowBits(input, ppm), Empty, ppm, rdd)} :
      /\ codewords = d.codewords
      /\ symbols = d.symbols
      /\ \A j \in 1..Len(symbols) : symbols[j] < Pow2(ppm)

\* A header block at SF = 7 (ppm = 5, rdd = 4) whose symbols all carry
\* bits 5 and 6: the swap clears them and the codewords are those of the
\* low five bits, not all zero.
C12_Witness ==
  /\ Deinterleaved
  /\ ppm = 5 /\ rdd = 4
  /\ Len(input) = 8
  /\ \A j \in 1..Len(input) : Bit(input[j], 5) = 1 /\ Bit(input[j], 6) = 1
  /\ \A j \in 1..Len(symbols) : symbols[j] < 32
  /\ \E i \in 1..Len(codewords) : codewords[i] # 0
  /\ codewords = deinterleave(LowBits(input, ppm), Empty, ppm, rdd).codewords

\* The same in decode: the header codewords and nibbles published are those
\* of the first 8 whitened symbols cut to their low SF-2 bits.
C12_HeaderNibbles ==
  (Published /\ decode_defined(d_sf, d_cr)) =>
    \E d \in {deinterleave(LowBits(header_part(symbols_in), header_ppm(d_sf)),
                           Empty, header_ppm(d_sf), header_rdd)} :
      /\ header_codewords = d.codewords
      /\ \A u \in unassigned_checks(header_rdd) :
           header_bytes = hamming_decode(d.codewords, Empty, header_rdd, u).bytes

\* A published header whose whitened symbols carry bits at or above bit
\* SF-2 and whose codewords are not all zero.
C12_HeaderWitness ==
  /\ Published /\ decode_defined(d_sf, d_cr)
  /\ Len(symbols_in) >= 8
  /\ \E j \in 1..8 : symbols_in[j] >= Pow2(d_sf - 2)
  /\ \E i \in 1..Len(header_codewords) : header_codewords[i] # 0

====
